---------------------------- MODULE Spec2Model ----------------------------
(***************************************************************************)
(* A model of parse_cnu.py (src/parser.py): the two regular expressions,   *)
(* parse_cnu_line, the rendering of a record and the driving loop of main. *)
(*                                                                         *)
(* Text is a sequence of one-character strings.  A regular expression is a *)
(* sequence of elements (literal, bounded repetition of a character class, *)
(* group open/close, end anchor) matched by a backtracking matcher that    *)
(* tries the alternatives in the order Python's re module tries them.      *)
(***************************************************************************)
EXTENDS Integers, Sequences, FiniteSets, TLC

\* -------------------------------------------------------------------------
\* Character classes of Python's re (restricted to the ASCII alphabet used)
\* -------------------------------------------------------------------------
Digit == {"0", "1", "2", "3", "4", "5", "6", "7", "8", "9"}

Letter ==
    {"a", "b", "c", "d", "e", "f", "g", "h", "i", "j", "k", "l", "m",
     "n", "o", "p", "q", "r", "s", "t", "u", "v", "w", "x", "y", "z",
     "A", "B", "C", "D", "E", "F", "G", "H", "I", "J", "K", "L", "M",
     "N", "O", "P", "Q", "R", "S", "T", "U", "V", "W", "X", "Y", "Z"}

\* \s
Space == {" ", "\t", "\n", "\r", "\f"}

\* \w
WordChar == Digit \cup Letter \cup {"_"}

\* Membership of character c in the class named cls.
InClass(c, cls) ==
    CASE cls = "d"     -> c \in Digit                  \* \d
      [] cls = "dd"    -> c \in Digit \cup {"."}       \* [\d\.]
      [] cls = "w"     -> c \in WordChar               \* \w
      [] cls = "s"     -> c \in Space                  \* \s
      [] cls = "nsc"   -> c \notin Space \cup {":"}    \* [^\s:]
      [] cls = "ngt"   -> c # ">"                      \* [^>]
      [] cls = "any"   -> c # "\n"                     \* .
      [] cls = "minus" -> c = "-"                      \* -

\* -------------------------------------------------------------------------
\* Regular-expression elements
\* -------------------------------------------------------------------------
Unbounded == -1

Lit(s) == [k |-> "lit", s |-> s, c |-> "", min |-> 0, max |-> 0, lazy |-> FALSE, cap |-> 0]

Rep(cls, lo, hi, lz) ==
    [k |-> "rep", s |-> <<>>, c |-> cls, min |-> lo, max |-> hi, lazy |-> lz, cap |-> 0]

Star(cls) == Rep(cls, 0, Unbounded, FALSE)       \* X*
Plus(cls) == Rep(cls, 1, Unbounded, FALSE)       \* X+
Opt(cls) == Rep(cls, 0, 1, FALSE)                \* X?
LazyStar(cls) == Rep(cls, 0, Unbounded, TRUE)    \* X*?

Open(n) == [k |-> "open", s |-> <<>>, c |-> "", min |-> 0, max |-> 0, lazy |-> FALSE, cap |-> n]
Close(n) == [k |-> "close", s |-> <<>>, c |-> "", min |-> 0, max |-> 0, lazy |-> FALSE, cap |-> n]

\* (X+) as capture group n
Group(n, cls) == <<Open(n), Plus(cls), Close(n)>>

\* $
EndAnchor == [k |-> "end", s |-> <<>>, c |-> "", min |-> 0, max |-> 0, lazy |-> FALSE, cap |-> 0]

RxTag == <<"<","R","x"," ","G","o","o","d","/","B","a","d",",","P","e","r","c","e","n","t">>

PerChannel == <<"p","e","r"," ","c","h","a","n","n","e","l">>

\* line_regex, src/parser.py lines 20-31, element by element.
\* Lines 21-27: the colon-delimited fields.
line_regex_fields ==
    <<Star("s")>>                                                  \* ^\s*
    \o Group(1, "d") \o <<Lit(<<":">>)>>                           \* (\d+):
    \o Group(2, "dd") \o <<Lit(<<":">>)>>                          \* ([\d\.]+):
    \o Group(3, "w") \o <<Lit(<<":">>)>>                           \* (\w+):
    \o Group(4, "w") \o <<Lit(<<":">>)>>                           \* (\w+):
    \o <<Star("s")>> \o Group(5, "nsc")                            \* \s*([^\s:]+)
    \o <<Star("s"), Lit(<<":">>), Star("s")>>                      \* \s*:\s*
    \o Group(6, "d") \o <<Lit(<<":">>), Star("s")>>                \* (\d+):\s*

\* Line 28: the three angle-bracket groups.
line_regex_groups ==
    <<Lit(<<"<">>)>> \o Group(7, "d") \o <<Lit(<<":">>)>>          \* <(\d+):
    \o Group(8, "ngt") \o <<Lit(<<">">>), Lit(<<",">>)>>           \* ([^>]+)>,
    \o <<Lit(<<"<">>)>> \o Group(9, "d") \o <<Lit(<<",">>)>>       \* <(\d+),
    \o Group(10, "ngt") \o <<Lit(<<">">>), Lit(<<",">>)>>          \* ([^>]+)>,
    \o <<Lit(<<"<">>)>> \o Group(11, "d")                          \* <(\d+)
    \o <<Lit(<<">">>), Star("s")>>                                 \* >\s*

\* Line 29: the Rx group.
line_regex_rx ==
    <<Lit(RxTag), Plus("s")>>                                      \* <Rx Good/Bad,Percent\s+
    \o Group(12, "d") \o <<Lit(<<"/">>), Plus("s")>>               \* (\d+)\/\s+
    \o Group(13, "d") \o <<Lit(<<",">>), Plus("s")>>               \* (\d+),\s+
    \o Group(14, "dd") \o <<Lit(<<"%">>), Lit(<<">">>)>>           \* ([\d\.]+)%>

\* The same with the marker allowed only directly after the Rx group.
line_regex_tail_adjacent ==
    <<Star("s"), Lit(PerChannel), Star("s")>>
    \o <<Open(15), Star("any"), Close(15), EndAnchor>>

\* Line 30: the marker and the channel-data segment.
line_regex_tail ==
    <<LazyStar("any"), Lit(PerChannel), Star("s")>>                \* .*?per channel\s*
    \o <<Open(15), Star("any"), Close(15), EndAnchor>>             \* (.*)$

line_regex == line_regex_fields \o line_regex_groups \o line_regex_rx \o line_regex_tail

\* The same with rxPower an unsigned integer.
channel_regex_unsigned ==
    <<Lit(<<"<">>)>> \o Group(1, "d") \o <<Lit(<<":">>), Star("s")>>
    \o Group(2, "d") \o <<Lit(<<"/">>)>>
    \o Group(3, "d") \o <<Lit(<<"/">>)>>
    \o Group(4, "d") \o <<Lit(<<"/">>)>>
    \o Group(5, "d") \o <<Lit(<<",">>)>>
    \o Group(6, "d") \o <<Lit(<<"/">>)>>
    \o Group(7, "d") \o <<Lit(<<">">>)>>

\* channel_regex, src/parser.py lines 34-42.
channel_regex ==
    <<Lit(<<"<">>)>> \o Group(1, "d") \o <<Lit(<<":">>), Star("s")>>   \* <(\d+):\s*
    \o Group(2, "d") \o <<Lit(<<"/">>)>>                               \* (\d+)\/
    \o <<Open(3), Opt("minus"), Plus("d"), Close(3), Lit(<<"/">>)>>    \* (-?\d+)\/
    \o Group(4, "d") \o <<Lit(<<"/">>)>>                               \* (\d+)\/
    \o Group(5, "d") \o <<Lit(<<",">>)>>                               \* (\d+),
    \o Group(6, "d") \o <<Lit(<<"/">>)>>                               \* (\d+)\/
    \o Group(7, "d") \o <<Lit(<<">">>)>>                               \* (\d+)>

\* -------------------------------------------------------------------------
\* The matcher.  A backtracking matcher tries, at every repetition, the
\* candidate counts in priority order (longest first when greedy, shortest
\* first when lazy) and returns the first way of matching the whole pattern.
\* Here the ways of matching a run of elements are listed in that same
\* priority order, and the match is the head of the list for the pattern.
\* -------------------------------------------------------------------------
NoMatch == [ok |-> FALSE]

NoGroups == [n \in 1..15 |-> <<0, 0>>]

\* Number of consecutive characters of class cls in text from position pos:
\* the offset of the first character outside the class (or of the end).
RunLen(text, pos, cls) ==
    LET stops == {k \in 0..(Len(text) + 1 - pos) :
                     pos + k > Len(text) \/ ~InClass(text[pos + k], cls)}
    IN  CHOOSE k \in stops : \A j \in stops : k <= j

HasLit(text, pos, s) ==
    /\ pos + Len(s) - 1 <= Len(text)
    /\ SubSeq(text, pos, pos + Len(s) - 1) = s

\* $ matches at the end of the text, or just before a final newline.
AtEnd(text, pos) ==
    \/ pos = Len(text) + 1
    \/ pos = Len(text) /\ text[pos] = "\n"

Span(a, b) == IF a <= b THEN a..b ELSE {}

\* The ways, in priority order, of matching element el at st.pos.  st holds
\* the position, the group spans (g) and the positions consumed by
\* literals (lit).
MatchElem(el, text, st) ==
    CASE el.k = "lit" ->
           IF HasLit(text, st.pos, el.s)
           THEN <<[st EXCEPT !.pos = @ + Len(el.s),
                             !.lit = @ \cup Span(st.pos, st.pos + Len(el.s) - 1)]>>
           ELSE <<>>
      [] el.k = "open" -> <<[st EXCEPT !.g[el.cap] = <<st.pos, st.pos - 1>>]>>
      [] el.k = "close" -> <<[st EXCEPT !.g[el.cap] = <<@[1], st.pos - 1>>]>>
      [] el.k = "end" -> IF AtEnd(text, st.pos) THEN <<st>> ELSE <<>>
      [] el.k = "rep" ->
           LET run == RunLen(text, st.pos, el.c)
               hi  == IF el.max # Unbounded /\ el.max < run THEN el.max ELSE run
           IN  IF hi < el.min
               THEN <<>>
               ELSE [i \in 1..(hi - el.min + 1) |->
                        [st EXCEPT !.pos = @ + (IF el.lazy THEN el.min + i - 1
                                                           ELSE hi - i + 1)]]

RECURSIVE Flatten(_, _, _)
\* ss[a] \o ... \o ss[b]
Flatten(ss, a, b) ==
    IF a > b THEN <<>>
    ELSE IF a = b THEN ss[a]
    ELSE Flatten(ss, a, (a + b) \div 2) \o Flatten(ss, (a + b) \div 2 + 1, b)

RECURSIVE MatchSeg(_, _, _, _, _)
\* The ways, in priority order, of matching elements a..b of pat from st:
\* every way of matching the first half, each continued by every way of
\* matching the second half.
MatchSeg(pat, a, b, text, st) ==
    IF a = b
    THEN MatchElem(pat[a], text, st)
    ELSE LET mid  == (a + b) \div 2
             left == MatchSeg(pat, a, mid, text, st)
         IN  IF left = <<>>
             THEN <<>>
             ELSE Flatten([i \in 1..Len(left) |-> MatchSeg(pat, mid + 1, b, text, left[i])],
                          1, Len(left))

\* The match of pat in text anchored at position pos, or NoMatch.
MatchAt(pat, text, pos) ==
    LET ways == MatchSeg(pat, 1, Len(pat), text, [pos |-> pos, g |-> NoGroups, lit |-> {}])
    IN  IF ways = <<>>
        THEN NoMatch
        ELSE [ok |-> TRUE, end |-> ways[1].pos, g |-> ways[1].g, lit |-> ways[1].lit]

\* pattern.match(text)
re_match(pat, text) == MatchAt(pat, text, 1)

\* m.group(n)
group(text, m, n) == SubSeq(text, m.g[n][1], m.g[n][2])

RECURSIVE FindAllFrom(_, _, _)
\* pattern.findall(text) from position pos: the tuples of groups 1..7 of
\* the successive non-overlapping matches, scanning left to right.
FindAllFrom(pat, text, pos) ==
    LET starts == {p \in pos..Len(text) : MatchAt(pat, text, p).ok} IN
    IF starts = {}
    THEN <<>>
    ELSE LET p == CHOOSE q \in starts : \A r \in starts : q <= r
             m == MatchAt(pat, text, p)
         IN  <<[i \in 1..7 |-> group(text, m, i)]>>
             \o FindAllFrom(pat, text, IF m.end > p THEN m.end ELSE p + 1)

\* Only the first match, as pattern.search would give.
findall_first_only(pat, text) ==
    LET all == FindAllFrom(pat, text, 1) IN IF all = <<>> THEN <<>> ELSE <<all[1]>>

findall(pat, text) == FindAllFrom(pat, text, 1)

\* The text unchanged.
strip_nothing(s) == s

\* str.strip(): without the leading and trailing whitespace.
strip(s) ==
    LET keep == {i \in 1..Len(s) : s[i] \notin Space} IN
    IF keep = {}
    THEN <<>>
    ELSE SubSeq(s, CHOOSE i \in keep : \A j \in keep : i <= j,
                   CHOOSE i \in keep : \A j \in keep : i >= j)

\* Without any trailing whitespace, as str.rstrip() would give.
rstrip_all_space(s) ==
    LET keep == {i \in 1..Len(s) : s[i] \notin Space} IN
    IF keep = {} THEN <<>> ELSE SubSeq(s, 1, CHOOSE i \in keep : \A j \in keep : i >= j)

\* str.rstrip("\n"): without the trailing newline characters.
rstrip_newline(s) ==
    LET keep == {i \in 1..Len(s) : s[i] # "\n"} IN
    IF keep = {} THEN <<>> ELSE SubSeq(s, 1, CHOOSE i \in keep : \A j \in keep : i >= j)

\* -------------------------------------------------------------------------
\* parse_cnu_line, src/parser.py lines 44-108
\* -------------------------------------------------------------------------
\* Python's None.
None == [type |-> "NoneType"]

\* The dictionary built for one tuple of channel_regex.findall.
ch_data(ch_tuple) ==
    [bandIndex    |-> ch_tuple[1],
     rxBitsPerSym |-> ch_tuple[2],
     rxPower      |-> ch_tuple[3],
     rxSnr        |-> ch_tuple[4],
     rxPhyRate    |-> ch_tuple[5],
     txBitsPerSym |-> ch_tuple[6],
     txPhyRate    |-> ch_tuple[7]]

parse_cnu_line(line) ==
    LET m == re_match(line_regex, line) IN
    IF ~m.ok
    THEN None
    ELSE LET channel_part == group(line, m, 15)
             channels     == findall(channel_regex, channel_part)
         IN  [timestamp      |-> group(line, m, 2),
              trace_level    |-> group(line, m, 3),
              module         |-> group(line, m, 4),
              function       |-> group(line, m, 5),
              source_line    |-> group(line, m, 6),
              moca_port      |-> group(line, m, 7),
              moca_port_dev  |-> strip(group(line, m, 8)),
              cnu_id         |-> group(line, m, 9),
              cnu_mac        |-> strip(group(line, m, 10)),
              source_type    |-> group(line, m, 11),
              rx_good        |-> group(line, m, 12),
              rx_bad         |-> group(line, m, 13),
              rx_bad_percent |-> group(line, m, 14),
              channels       |-> [i \in 1..Len(channels) |-> ch_data(channels[i])]]

\* Python truthiness of the value parse_cnu_line returns ("if not parsed").
Truthy(v) == v # None /\ DOMAIN v # {}

\* -------------------------------------------------------------------------
\* Rendering of one record, src/parser.py lines 137-162: the arguments of
\* the successive out_f.write calls
\* -------------------------------------------------------------------------
NL == <<"\n">>

\* The literal written at line 137.
divider_open == <<
                  "-","-","-","-","-","-","-","-","-","-","-","-","-","-","-","-","-","-","-",
                  "-","-","-","-","-","-","-","-","-","-","-","-","-","-","-","-","-","-","-",
                  "-","-","-","-","-","-","-","-","-","-","-","-","-">>

\* One hyphen fewer.
divider_close_short == <<
                         "-","-","-","-","-","-","-","-","-","-","-","-","-","-","-","-","-",
                         "-","-","-","-","-","-","-","-","-","-","-","-","-","-","-","-","-",
                         "-","-","-","-","-","-","-","-","-","-","-","-","-","-","-","-">>

\* The literal written at line 162.
divider_close == <<
                   "-","-","-","-","-","-","-","-","-","-","-","-","-","-","-","-","-","-",
                   "-","-","-","-","-","-","-","-","-","-","-","-","-","-","-","-","-","-",
                   "-","-","-","-","-","-","-","-","-","-","-","-","-","-","-">>

\* "CNU" for source type "1" only.
source_str_cnu_is_one(parsed) ==
    IF parsed.source_type = <<"1">> THEN <<"C","N","U">> ELSE <<"M","i","c","r","o","n","o","d","e">>

\* Line 146.
source_str(parsed) ==
    IF parsed.source_type = <<"0">> THEN <<"M","i","c","r","o","n","o","d","e">> ELSE <<"C","N","U">>

channel_write(ch) ==
    <<" "," ","B","a","n","d","I","n","d","e","x",":"," ">> \o ch.bandIndex
    \o <<" ","|"," ","R","X"," ","b","i","t","s","/","s","y","m",":"," ">> \o ch.rxBitsPerSym
    \o <<" ","|"," ","P","o","w","e","r",":"," ">> \o ch.rxPower
    \o <<" ","d","B","m","?"," ","|"," ","S","N","R",":"," ">> \o ch.rxSnr
    \o <<" ","d","B"," ","|"," ","R","X"," ","P","H","Y",":"," ">> \o ch.rxPhyRate
    \o <<" ","M","b","p","s"," ","|"," ","T","X"," ","b","i","t","s","/","s","y","m",":"," ">> \o ch.txBitsPerSym
    \o <<" ","|"," ","T","X"," ","P","H","Y",":"," ">> \o ch.txPhyRate
    \o <<" ","M","b","p","s">> \o NL

block_writes(parsed) ==
    <<divider_open \o NL,
      <<"T","i","m","e","s","t","a","m","p",":"," "," ">> \o parsed.timestamp \o NL,
      <<"L","e","v","e","l",":"," "," "," "," "," "," ">> \o parsed.trace_level \o NL,
      <<"M","o","d","u","l","e",":"," "," "," "," "," ">> \o parsed.module \o NL,
      <<"F","u","n","c","t","i","o","n",":"," "," "," ">> \o parsed.function \o NL,
      <<"L","i","n","e",":"," "," "," "," "," "," "," ">> \o parsed.source_line \o NL,
      <<"M","o","C","A"," ","P","o","r","t",":"," "," ">> \o parsed.moca_port \o <<" ", "(">> \o parsed.moca_port_dev
          \o <<")">> \o NL,
      <<"C","N","U"," ","I","D",":"," "," "," "," "," ">> \o parsed.cnu_id \o NL,
      <<"C","N","U"," ","M","A","C",":"," "," "," "," ">> \o parsed.cnu_mac \o NL,
      <<"S","o","u","r","c","e",":"," "," "," "," "," ">> \o source_str(parsed) \o NL,
      <<"R","x"," ","G","o","o","d",":"," "," "," "," ">> \o parsed.rx_good \o NL,
      <<"R","x"," ","B","a","d",":"," "," "," "," "," ">> \o parsed.rx_bad \o NL,
      <<"R","x"," ","%"," ","B","a","d",":"," "," "," ">> \o parsed.rx_bad_percent \o NL,
      <<"C","h","a","n","n","e","l"," ","S","t","a","t","s",":">> \o NL>>
    \o [i \in 1..Len(parsed.channels) |-> channel_write(parsed.channels[i])]
    \o <<divider_close \o NL>>

\* The lines of text s, each ended by a newline, without their terminators.
SplitLines(s) ==
    LET nl    == {i \in 1..Len(s) : s[i] = "\n"}
        start == [i \in nl |-> IF \E j \in nl : j < i
                               THEN 1 + (CHOOSE j \in nl : j < i /\ \A h \in nl : h < i => h <= j)
                               ELSE 1]
        order == [n \in 1..Cardinality(nl) |->
                     CHOOSE i \in nl : Cardinality({j \in nl : j <= i}) = n]
    IN  [n \in 1..Cardinality(nl) |-> SubSeq(s, start[order[n]], order[n] - 1)]

\* out_f.write(s) on a text stream whose content is kept as its lines
\* (every string main writes ends with a newline).
write(content, s) == content \o SplitLines(s)

RECURSIVE write_all(_, _)
write_all(content, ws) ==
    IF ws = <<>> THEN content ELSE write_all(write(content, Head(ws)), Tail(ws))

\* -------------------------------------------------------------------------
\* State
\* -------------------------------------------------------------------------
VARIABLES
    args_debug,       \* args.debug
    args_output,      \* TRUE iff -o OUTFILE was given
    file,             \* the input file: its lines as read, terminators included
    pc,               \* position of main
    idx,              \* number of input lines consumed by the loop
    line,             \* the loop variable after line.rstrip("\n")
    parsed,           \* the value of parse_cnu_line(line) in the last iteration
    out_f,            \* state of the output file object
    out,              \* lines written to out_f
    no_match_lines,   \* the rejection list
    hist,             \* history: what parse_cnu_line returned for each line consumed
    t_pc,             \* position of the parser harness
    t_inj,            \* what the harness input was built from
    t_line,           \* the harness input line
    t_parsed,         \* parse_cnu_line(t_line)
    t_match,          \* history: line_regex.match(t_line)
    t_block,          \* the lines of the rendered block
    t_del,            \* position of the character removed from t_line (0: none)
    t_reparsed        \* parse_cnu_line of t_line without character t_del

main_vars == <<args_debug, args_output, file, pc, idx, line, parsed, out_f, out,
               no_match_lines, hist>>

harness_vars == <<t_pc, t_inj, t_line, t_parsed, t_match, t_block, t_del, t_reparsed>>

vars == <<args_debug, args_output, file, pc, idx, line, parsed, out_f, out,
          no_match_lines, hist, t_pc, t_inj, t_line, t_parsed, t_match, t_block, t_del,
          t_reparsed>>

\* -------------------------------------------------------------------------
\* Input lines built from the header and channel grammar
\* -------------------------------------------------------------------------
\* Largest number of channel groups put after "per channel".
MaxChannels == 2

\* A channel group <b:r/p/s/y,t/x>; colonWs and commaWs are the whitespace
\* put after ":" and after ",".
ChanText(c) ==
    <<"<">> \o c.bandIndex \o <<":">> \o c.colonWs \o c.rxBitsPerSym
    \o <<"/">> \o c.rxPower \o <<"/">> \o c.rxSnr \o <<"/">> \o c.rxPhyRate
    \o <<",">> \o c.commaWs \o c.txBitsPerSym \o <<"/">> \o c.txPhyRate \o <<">">>

ChanGroups ==
    {[bandIndex |-> <<"0">>, colonWs |-> <<>>, rxBitsPerSym |-> <<"4">>,
      rxPower |-> <<"-", "3">>, rxSnr |-> <<"3", "0">>, rxPhyRate |-> <<"1", "0", "0">>,
      commaWs |-> <<>>, txBitsPerSym |-> <<"4">>, txPhyRate |-> <<"2", "0", "0">>],
     [bandIndex |-> <<"1">>, colonWs |-> <<" ">>, rxBitsPerSym |-> <<"5">>,
      rxPower |-> <<"2">>, rxSnr |-> <<"2", "8">>, rxPhyRate |-> <<"9", "0">>,
      commaWs |-> <<>>, txBitsPerSym |-> <<"3">>, txPhyRate |-> <<"1", "8", "0">>],
     [bandIndex |-> <<"2">>, colonWs |-> <<" ">>, rxBitsPerSym |-> <<"6">>,
      rxPower |-> <<"-", "1">>, rxSnr |-> <<"9">>, rxPhyRate |-> <<"7">>,
      commaWs |-> <<" ">>, txBitsPerSym |-> <<"2">>, txPhyRate |-> <<"8">>]}

ChanLists == UNION {[1..n -> ChanGroups] : n \in 0..MaxChannels}

\* The choices the grammar of the header leaves open.  The device name is
\* devPad \o dev \o devPad; tail is text put after the channel groups.
Injections ==
    [kind    : {"built"},
     ows     : {<<>>, <<" ">>},                 \* every optional whitespace
     dev     : {<<"e","t","h","0">>},
     devPad  : {<<>>, <<" ">>},
     mac     : {<<"A",":","B">>},
     st      : {<<"0">>, <<"1">>, <<"2">>, <<"0", "0">>},
     wsSlash : {<<>>, <<" ">>},                 \* between "/" and the bad count
     wsComma : {<<>>, <<" ">>},                 \* between "," and the percent
     any     : {<<>>, <<" ","b","l","a","h"," ">>, <<
                                     " ","p","e","r"," ","c","h","a","n","n","e","l"," ","<",
                                     "9",":","1","/","1","/","1","/","1",",","1","/","1",">",
                                     " ">>},
     chans   : ChanLists,
     tail    : {<<>>}]

RECURSIVE Concat(_)
Concat(ss) == IF ss = <<>> THEN <<>> ELSE Head(ss) \o Concat(Tail(ss))

BuildLine(j) ==
    j.ows \o <<
               "1","2",":","1","6","9","9",".","5",":","I","N","F","O",":","m","o","c","a",
               ":">>
    \o j.ows \o <<"h","C","S">> \o j.ows \o <<":">> \o j.ows \o <<"4","5",":">> \o j.ows
    \o <<"<","2",":">> \o j.devPad \o j.dev \o j.devPad \o <<">",",","<","7",",">> \o j.mac
    \o <<">",",","<">> \o j.st \o <<">">> \o j.ows
    \o <<"<","R","x"," ","G","o","o","d","/","B","a","d",",","P","e","r","c","e","n","t"," ">> \o <<"1","0","0","/">> \o j.wsSlash \o <<"2", ",">> \o j.wsComma
    \o <<"1",".","9","6","%",">">> \o j.any \o <<"p","e","r"," ","c","h","a","n","n","e","l">> \o j.ows
    \o Concat([i \in 1..Len(j.chans) |-> ChanText(j.chans[i])]) \o j.tail

\* The end-to-end example line of the specification, and the same line with
\* the second group written <cnuId,mac>.
ExampleLine == <<
                 "1","2",":","1","6","9","9","9","9","9","9","9","9",".","1","2","3",":","I",
                 "N","F","O",":","m","o","c","a",":","h","a","n","d","l","e","C","n","u","S",
                 "t","a","t","s",":","4","5",":"," ","<","2",":","e","t","h","0",">",",","<",
                 "7",":","A","A",":","B","B",":","C","C",":","D","D",":","E","E",":","F","F",
                 ">",",","<","1",">"," ","<","R","x"," ","G","o","o","d","/","B","a","d",",",
                 "P","e","r","c","e","n","t"," ","1","0","0","/"," ","2",","," ","1",".","9",
                 "6","%",">"," ","b","l","a","h"," ","p","e","r"," ","c","h","a","n","n","e",
                 "l"," ","<","0",":","4","/","-","3","/","3","0","/","1","0","0",",","4","/",
                 "2","0","0",">","<","1",":","5","/","2","/","2","8","/","9","0",",","3","/",
                 "1","8","0",">">>

ExampleLineComma == <<
                      "1","2",":","1","6","9","9","9","9","9","9","9","9",".","1","2","3",":",
                      "I","N","F","O",":","m","o","c","a",":","h","a","n","d","l","e","C","n",
                      "u","S","t","a","t","s",":","4","5",":"," ","<","2",":","e","t","h","0",
                      ">",",","<","7",",","A","A",":","B","B",":","C","C",":","D","D",":","E",
                      "E",":","F","F",">",",","<","1",">"," ","<","R","x"," ","G","o","o","d",
                      "/","B","a","d",",","P","e","r","c","e","n","t"," ","1","0","0","/"," ",
                      "2",","," ","1",".","9","6","%",">"," ","b","l","a","h"," ","p","e","r",
                      " ","c","h","a","n","n","e","l"," ","<","0",":","4","/","-","3","/","3",
                      "0","/","1","0","0",",","4","/","2","0","0",">","<","1",":","5","/","2",
                      "/","2","8","/","9","0",",","3","/","1","8","0",">">>

Examples ==
    {[kind |-> "example", text |-> ExampleLine],
     [kind |-> "example", text |-> ExampleLineComma]}

InputText(j) == IF j.kind = "built" THEN BuildLine(j) ELSE j.text

\* -------------------------------------------------------------------------
\* The parser harness: parse one line, then render the record
\* -------------------------------------------------------------------------
Unset == [type |-> "unset"]

MainIdle ==
    /\ args_debug = FALSE
    /\ args_output = FALSE
    /\ file = <<>>
    /\ pc = "idle"
    /\ idx = 0
    /\ line = <<>>
    /\ parsed = Unset
    /\ out_f = "unopened"
    /\ out = <<>>
    /\ no_match_lines = <<>>
    /\ hist = <<>>

HarnessIdle ==
    /\ t_pc = "idle"
    /\ t_inj = Unset
    /\ t_line = <<>>
    /\ t_parsed = Unset
    /\ t_match = Unset
    /\ t_block = <<>>
    /\ t_del = 0
    /\ t_reparsed = Unset

ParseInit ==
    /\ MainIdle
    /\ t_inj \in Injections \cup Examples
    /\ t_line = InputText(t_inj)
    /\ t_pc = "input"
    /\ t_parsed = Unset
    /\ t_match = Unset
    /\ t_block = <<>>
    /\ t_del = 0
    /\ t_reparsed = Unset

\* parsed = parse_cnu_line(line)
Parse ==
    /\ t_pc = "input"
    /\ t_parsed' = parse_cnu_line(t_line)
    /\ t_match' = re_match(line_regex, t_line)
    /\ t_pc' = "parsed"
    /\ UNCHANGED <<t_inj, t_line, t_block, t_del, t_reparsed>>
    /\ UNCHANGED main_vars

\* The block main writes for a matched line.
Render ==
    /\ t_pc = "parsed"
    /\ Truthy(t_parsed)
    /\ t_block' = write_all(<<>>, block_writes(t_parsed))
    /\ t_pc' = "rendered"
    /\ UNCHANGED <<t_inj, t_line, t_parsed, t_match, t_del, t_reparsed>>
    /\ UNCHANGED main_vars

ParseNext == Parse \/ Render

ParseSpec == ParseInit /\ [][ParseNext]_vars

\* -------------------------------------------------------------------------
\* main, src/parser.py lines 111-172
\* -------------------------------------------------------------------------
\* Largest number of lines of the input file.
MaxLines == 3

\* Line texts the input file is made of: two lines the grammar accepts (one
\* channel group, source 1; no channel group, source 0) and two it rejects
\* (text with leading and trailing whitespace; a blank line).
AcceptedText1 == <<
                   "1",":","2",":","I",":","m",":","f",":","3",":","<","2",":","e",">",",",
                   "<","7",",","M",">",",","<","1",">","<","R","x"," ","G","o","o","d","/",
                   "B","a","d",",","P","e","r","c","e","n","t"," ","5","/"," ","2",","," ",
                   "3","%",">","p","e","r"," ","c","h","a","n","n","e","l","<","0",":","4",
                   "/","-","3","/","3","0","/","1","0","0",",","4","/","2","0","0",">">>

AcceptedText0 == <<
                   "4",":","5",":","W",":","n",":","g",":","6",":","<","1",":","d",">",",",
                   "<","8",",","N",">",",","<","0",">"," ","<","R","x"," ","G","o","o","d",
                   "/","B","a","d",",","P","e","r","c","e","n","t"," ","9","/"," ","0",",",
                   " ","0",".","5","%",">"," ","p","e","r"," ","c","h","a","n","n","e","l">>

RejectedText1 == <<" ","j","u","n","k","\t">>

RejectedText2 == <<>>

PoolTexts == {AcceptedText1, AcceptedText0, RejectedText1, RejectedText2}

\* The files: every line ends with a newline, except possibly the last.
Files ==
    {f \in UNION {{[i \in 1..n |-> texts[i] \o (IF i < n \/ term THEN NL ELSE <<>>)] :
                      texts \in [1..n -> PoolTexts], term \in BOOLEAN} : n \in 0..MaxLines} :
        \A i \in 1..Len(f) : f[i] # <<>>}

Init ==
    /\ HarnessIdle
    /\ args_debug \in BOOLEAN
    /\ args_output \in BOOLEAN
    /\ file \in Files
    /\ pc = "start"
    /\ idx = 0
    /\ line = <<>>
    /\ parsed = Unset
    /\ out_f = "unopened"
    /\ out = <<>>
    /\ no_match_lines = <<>>
    /\ hist = <<>>

\* Lines 121-124: out_f = open(args.output, "w") or sys.stdout.
OpenOutput ==
    /\ pc = "start"
    /\ out_f' = IF args_output THEN "open" ELSE "stdout"
    /\ out' = <<>>
    /\ pc' = "open_input"
    /\ UNCHANGED <<args_debug, args_output, file, idx, line, parsed, no_match_lines, hist>>
    /\ UNCHANGED harness_vars

\* Line 122 raises: the output path cannot be opened for writing.
OpenOutputFails ==
    /\ pc = "start"
    /\ args_output
    /\ pc' = "raised"
    /\ UNCHANGED <<args_debug, args_output, file, idx, line, parsed, out_f, out,
                   no_match_lines, hist>>
    /\ UNCHANGED harness_vars

\* Lines 126-127: no_match_lines = []; the input file is opened.
OpenInput ==
    /\ pc = "open_input"
    /\ no_match_lines' = <<>>
    /\ pc' = "loop"
    /\ UNCHANGED <<args_debug, args_output, file, idx, line, parsed, out_f, out, hist>>
    /\ UNCHANGED harness_vars

\* Line 127 raises: the input path cannot be opened for reading.
OpenInputFails ==
    /\ pc = "open_input"
    /\ no_match_lines' = <<>>
    /\ pc' = "raised"
    /\ UNCHANGED <<args_debug, args_output, file, idx, line, parsed, out_f, out, hist>>
    /\ UNCHANGED harness_vars

\* The line put in front of the list.
prepend_no_match(lst, l) == <<l>> \o lst

\* The list after no_match_lines.append(l), line 133.
append_no_match(lst, l) == Append(lst, l)

\* Lines 128-162: one iteration of the loop over the lines of the file.
LoopStep ==
    /\ pc = "loop"
    /\ idx < Len(file)
    /\ line' = rstrip_newline(file[idx + 1])
    /\ parsed' = parse_cnu_line(line')
    /\ IF ~Truthy(parsed')
       THEN /\ no_match_lines' = append_no_match(no_match_lines, line')
            /\ out' = out
       ELSE /\ out' = write_all(out, block_writes(parsed'))
            /\ no_match_lines' = no_match_lines
    /\ idx' = idx + 1
    /\ hist' = Append(hist, parsed')
    /\ UNCHANGED <<args_debug, args_output, file, pc, out_f>>
    /\ UNCHANGED harness_vars

\* Line 128 raises: the next line cannot be read or decoded.
ReadFails ==
    /\ pc = "loop"
    /\ idx < Len(file)
    /\ pc' = "raised"
    /\ UNCHANGED <<args_debug, args_output, file, idx, line, parsed, out_f, out,
                   no_match_lines, hist>>
    /\ UNCHANGED harness_vars

\* One of the writes of lines 137-162 raises: the writes before it are done.
WriteFails ==
    /\ pc = "loop"
    /\ idx < Len(file)
    /\ line' = rstrip_newline(file[idx + 1])
    /\ parsed' = parse_cnu_line(line')
    /\ Truthy(parsed')
    /\ \E k \in 0..(Len(parsed'.channels) + 14) :
          out' = write_all(out, SubSeq(block_writes(parsed'), 1, k))
    /\ idx' = idx + 1
    /\ hist' = Append(hist, parsed')
    /\ pc' = "raised"
    /\ UNCHANGED <<args_debug, args_output, file, out_f, no_match_lines>>
    /\ UNCHANGED harness_vars

\* Line 128: the iterator is exhausted; the with block closes the input.
EndOfInput ==
    /\ pc = "loop"
    /\ idx = Len(file)
    /\ pc' = "after_loop"
    /\ UNCHANGED <<args_debug, args_output, file, idx, line, parsed, out_f, out,
                   no_match_lines, hist>>
    /\ UNCHANGED harness_vars

\* The literal written at line 166.
debug_header == <<
                  "\n","=","=","="," ","D","E","B","U","G"," ","M","O","D","E",":"," ","N",
                  "O"," ","M","A","T","C","H"," ","L","I","N","E","S"," ","=","=","=","\n">>

\* The string written at line 168.
no_match_write(nm) == <<"N","O"," ","M","A","T","C","H",":"," ">> \o nm \o NL

\* The writes of lines 166-168.
debug_writes(lst) == <<debug_header>> \o [i \in 1..Len(lst) |-> no_match_write(lst[i])]

\* The condition without the debug flag.
debug_wanted_ignoring_flag(dbg, lst) == lst # <<>>

\* The condition of line 165.
debug_wanted(dbg, lst) == dbg /\ lst # <<>>

\* Lines 165-168: the trailing section.
DebugSection ==
    /\ pc = "after_loop"
    /\ out' = IF debug_wanted(args_debug, no_match_lines)
              THEN write_all(out, debug_writes(no_match_lines))
              ELSE out
    /\ pc' = "closing"
    /\ UNCHANGED <<args_debug, args_output, file, idx, line, parsed, out_f, no_match_lines, hist>>
    /\ UNCHANGED harness_vars

\* One of the writes of lines 166-168 raises: the writes before it are done.
DebugWriteFails ==
    /\ pc = "after_loop"
    /\ debug_wanted(args_debug, no_match_lines)
    /\ \E k \in 0..Len(no_match_lines) :
          out' = write_all(out, SubSeq(debug_writes(no_match_lines), 1, k))
    /\ pc' = "raised"
    /\ UNCHANGED <<args_debug, args_output, file, idx, line, parsed, out_f, no_match_lines, hist>>
    /\ UNCHANGED harness_vars

\* The state of the output file object after lines 171-172.
close_output(given, f) == IF given THEN "closed" ELSE f

\* Lines 171-172: if args.output: out_f.close(); main returns.
CloseOutput ==
    /\ pc = "closing"
    /\ out_f' = close_output(args_output, out_f)
    /\ pc' = "done"
    /\ UNCHANGED <<args_debug, args_output, file, idx, line, parsed, out, no_match_lines, hist>>
    /\ UNCHANGED harness_vars

Next ==
    \/ OpenOutput
    \/ OpenOutputFails
    \/ OpenInput
    \/ OpenInputFails
    \/ LoopStep
    \/ ReadFails
    \/ WriteFails
    \/ EndOfInput
    \/ DebugSection
    \/ DebugWriteFails
    \/ CloseOutput

Spec == Init /\ [][Next]_vars

\* -------------------------------------------------------------------------
\* Properties of parse_cnu_line and of the rendered block (ParseSpec)
\* -------------------------------------------------------------------------
Built == t_inj.kind = "built"

\* The whitespace line 29 requires is present in the built line.
RxWhitespace == t_inj.wsSlash # <<>> /\ t_inj.wsComma # <<>>

\* Text s holds sub somewhere.
Contains(s, sub) == \E p \in 1..(Len(s) + 1) : HasLit(s, p, sub)

\* C3 as stated: the example line of the specification is accepted and
\* rendered with the listed values.
C3_ExampleAsStated ==
    (t_line = ExampleLine /\ t_pc # "input") => Truthy(t_parsed)

\* C3 amended: the example line as printed (second group <7:AA:...>) is
\* rejected; with the second group written <7,AA:BB:CC:DD:EE:FF> it is
\* accepted and rendered as MoCA Port 2 (eth0), CNU ID 7, CNU MAC
\* AA:BB:CC:DD:EE:FF, Source CNU, Rx Good 100, Rx Bad 2, Rx % Bad 1.96 and
\* exactly two channel lines, bandIndex 0 (Power: -3 dBm?) then 1.
C3_Example ==
    /\ (t_line = ExampleLine /\ t_pc # "input") => t_parsed = None
    /\ (t_line = ExampleLineComma /\ t_pc # "input") => Truthy(t_parsed)
    /\ (t_line = ExampleLineComma /\ t_pc = "rendered") =>
          /\ Len(t_block) = 17
          /\ t_block[7] = <<
                            "M","o","C","A"," ","P","o","r","t",":"," "," ","2"," ","(","e",
                            "t","h","0",")">>
          /\ t_block[8] = <<"C","N","U"," ","I","D",":"," "," "," "," "," ","7">>
          /\ t_block[9] = <<
                            "C","N","U"," ","M","A","C",":"," "," "," "," ","A","A",":","B",
                            "B",":","C","C",":","D","D",":","E","E",":","F","F">>
          /\ t_block[10] = <<"S","o","u","r","c","e",":"," "," "," "," "," ","C","N","U">>
          /\ t_block[11] = <<"R","x"," ","G","o","o","d",":"," "," "," "," ","1","0","0">>
          /\ t_block[12] = <<"R","x"," ","B","a","d",":"," "," "," "," "," ","2">>
          /\ t_block[13] = <<"R","x"," ","%"," ","B","a","d",":"," "," "," ","1",".","9","6">>
          /\ t_block[14] = <<"C","h","a","n","n","e","l"," ","S","t","a","t","s",":">>
          /\ t_block[15] = <<
                             " "," ","B","a","n","d","I","n","d","e","x",":"," ","0"," ","|",
                             " ","R","X"," ","b","i","t","s","/","s","y","m",":"," ","4"," ",
                             "|"," ","P","o","w","e","r",":"," ","-","3"," ","d","B","m","?",
                             " ","|"," ","S","N","R",":"," ","3","0"," ","d","B"," ","|"," ",
                             "R","X"," ","P","H","Y",":"," ","1","0","0"," ","M","b","p","s",
                             " ","|"," ","T","X"," ","b","i","t","s","/","s","y","m",":"," ",
                             "4"," ","|"," ","T","X"," ","P","H","Y",":"," ","2","0","0"," ",
                             "M","b","p","s">>
          /\ t_block[16] = <<
                             " "," ","B","a","n","d","I","n","d","e","x",":"," ","1"," ","|",
                             " ","R","X"," ","b","i","t","s","/","s","y","m",":"," ","5"," ",
                             "|"," ","P","o","w","e","r",":"," ","2"," ","d","B","m","?"," ",
                             "|"," ","S","N","R",":"," ","2","8"," ","d","B"," ","|"," ","R",
                             "X"," ","P","H","Y",":"," ","9","0"," ","M","b","p","s"," ","|",
                             " ","T","X"," ","b","i","t","s","/","s","y","m",":"," ","3"," ",
                             "|"," ","T","X"," ","P","H","Y",":"," ","1","8","0"," ","M","b",
                             "p","s">>

C3_Witness == t_line = ExampleLineComma /\ t_pc = "rendered" /\ Len(t_block) = 17

\* The channel record a built group must come back as.
InjectedChannel(c) ==
    [bandIndex    |-> c.bandIndex,
     rxBitsPerSym |-> c.rxBitsPerSym,
     rxPower      |-> c.rxPower,
     rxSnr        |-> c.rxSnr,
     rxPhyRate    |-> c.rxPhyRate,
     txBitsPerSym |-> c.txBitsPerSym,
     txPhyRate    |-> c.txPhyRate]

\* The header fields of the record equal the injected text, the device name
\* compared with want.
HeaderRoundTrip(want) ==
    /\ t_parsed.timestamp = <<"1","6","9","9",".","5">>
    /\ t_parsed.trace_level = <<"I","N","F","O">>
    /\ t_parsed.module = <<"m","o","c","a">>
    /\ t_parsed.function = <<"h","C","S">>
    /\ t_parsed.source_line = <<"4","5">>
    /\ t_parsed.moca_port = <<"2">>
    /\ t_parsed.moca_port_dev = want
    /\ t_parsed.cnu_id = <<"7">>
    /\ t_parsed.cnu_mac = t_inj.mac
    /\ t_parsed.source_type = t_inj.st
    /\ t_parsed.rx_good = <<"1","0","0">>
    /\ t_parsed.rx_bad = <<"2">>
    /\ t_parsed.rx_bad_percent = <<"1",".","9","6">>

ChannelsRoundTrip ==
    /\ Len(t_parsed.channels) = Len(t_inj.chans)
    /\ \A i \in 1..Len(t_inj.chans) : t_parsed.channels[i] = InjectedChannel(t_inj.chans[i])

\* C4 as stated: every line built from the grammar, zero whitespace after
\* "/" and "," included, is accepted and gives back each injected substring
\* and the N injected channel groups in order.
C4_RoundTripAsStated ==
    (Built /\ t_pc # "input") =>
        /\ Truthy(t_parsed)
        /\ HeaderRoundTrip(t_inj.devPad \o t_inj.dev \o t_inj.devPad)
        /\ ChannelsRoundTrip

\* C4 amended: a built line with at least one whitespace character between
\* "/" and the bad count and between "," and the percent is accepted and
\* every header field equals the injected text, the device name and the MAC
\* without their surrounding whitespace; a built line lacking either
\* whitespace is rejected.  When moreover the text before the marker holds
\* no "per channel" and every group is written <b:[ws]r/p/s/y,t/x> with no
\* whitespace after the comma, the channel list holds exactly the N
\* injected groups, in injection order, each field as injected.
C4_RoundTrip ==
    (Built /\ t_pc # "input") =>
        /\ Truthy(t_parsed) <=> RxWhitespace
        /\ RxWhitespace =>
              /\ HeaderRoundTrip(t_inj.dev)
              /\ (/\ ~Contains(t_inj.any, PerChannel)
                  /\ \A i \in 1..Len(t_inj.chans) : t_inj.chans[i].commaWs = <<>>)
                 => ChannelsRoundTrip

C4_Witness ==
    /\ Built
    /\ t_pc = "parsed"
    /\ RxWhitespace
    /\ t_inj.devPad = <<" ">>
    /\ t_inj.ows = <<>>
    /\ Len(t_inj.chans) = 2
    /\ t_inj.chans[1].rxPower = <<"-", "3">>
    /\ t_inj.chans[2].rxPower = <<"2">>
    /\ t_inj.any = <<>>
    /\ Len(t_parsed.channels) = 2

\* C8: the Source line of the block of every accepted line is
\* "Source:     Micronode" exactly when the source type written in the line
\* is "0", and "Source:     CNU" for every other digit string ("1", "2",
\* "00"); every accepted line is rendered.
C8_SourceMapping ==
    /\ (Built /\ t_pc = "parsed" /\ RxWhitespace) => ENABLED Render
    /\ (Built /\ t_pc = "rendered") =>
          t_block[10] = IF t_inj.st = <<"0">>
                        THEN <<
                               "S","o","u","r","c","e",":"," "," "," "," "," ","M","i","c",
                               "r","o","n","o","d","e">>
                        ELSE <<"S","o","u","r","c","e",":"," "," "," "," "," ","C","N","U">>

C8_Witness ==
    /\ Built
    /\ t_pc = "rendered"
    /\ t_inj.st = <<"0", "0">>
    /\ t_block[10] = <<"S","o","u","r","c","e",":"," "," "," "," "," ","C","N","U">>

\* The number of channel groups of the shape channel_regex looks for in the
\* text after the first "per channel" of a built line.
GroupsInSegment ==
    Cardinality({i \in 1..Len(t_inj.chans) : t_inj.chans[i].commaWs = <<>>})
    + (IF Contains(t_inj.any, PerChannel) THEN 1 ELSE 0)

\* C9: a line whose header matches and whose channel-data segment holds no
\* channel group is accepted with an empty channel list, and its block has
\* "Channel Stats:" followed at once by the closing divider; in general the
\* block has one channel line per channel group of the segment.
C9_ZeroChannel ==
    /\ (Built /\ t_pc # "input" /\ RxWhitespace) =>
          /\ Truthy(t_parsed)
          /\ Len(t_parsed.channels) = GroupsInSegment
    /\ (Built /\ t_pc = "rendered") =>
          /\ Len(t_block) = 15 + GroupsInSegment
          /\ t_block[14] = <<"C","h","a","n","n","e","l"," ","S","t","a","t","s",":">>
          /\ t_block[15 + GroupsInSegment] = divider_close
          /\ \A i \in 15..(14 + GroupsInSegment) :
                SubSeq(t_block[i], 1, 13) = <<
                                              " "," ","B","a","n","d","I","n","d","e","x",":",
                                              " ">>

C9_Witness ==
    /\ Built
    /\ t_pc = "rendered"
    /\ Len(t_inj.chans) = 1
    /\ GroupsInSegment = 0
    /\ t_parsed.channels = <<>>
    /\ t_block[15] = divider_close

\* -------------------------------------------------------------------------
\* Properties of main (Spec)
\* -------------------------------------------------------------------------
\* main has not raised.
Running == pc \in {"loop", "after_loop", "closing", "done"}

\* The text of a line as read: the line without its terminator, if any.
LineText(raw) ==
    IF raw # <<>> /\ raw[Len(raw)] = "\n" THEN SubSeq(raw, 1, Len(raw) - 1) ELSE raw

\* The i-th line consumed was rejected.
RejectedAt(i) == ~Truthy(hist[i])

\* The indices, in increasing order, of the rejected lines among the first n.
RejectedOrder(n) ==
    LET rej == {i \in 1..n : RejectedAt(i)} IN
    [k \in 1..Cardinality(rej) |-> CHOOSE i \in rej : Cardinality({j \in rej : j <= i}) = k]

\* The texts of the rejected lines among the first n, in input order.
RejectedTexts(n) ==
    [k \in 1..Len(RejectedOrder(n)) |-> LineText(file[RejectedOrder(n)[k]])]

\* The blocks of the matching lines among the first n, in input order.
BlocksOf(n) ==
    Flatten([i \in 1..n |-> IF RejectedAt(i) THEN <<>>
                                            ELSE write_all(<<>>, block_writes(hist[i]))],
            1, n)

HeaderLine == <<
                "=","=","="," ","D","E","B","U","G"," ","M","O","D","E",":"," ","N","O"," ",
                "M","A","T","C","H"," ","L","I","N","E","S"," ","=","=","=">>

NoMatchPrefix == <<"N","O"," ","M","A","T","C","H",":"," ">>

IsHyphens(l) == l # <<>> /\ \A i \in 1..Len(l) : l[i] = "-"

HeaderIdx == {i \in 1..Len(out) : out[i] = HeaderLine}

NoMatchIdx == {i \in 1..Len(out) : HasLit(out[i], 1, NoMatchPrefix)}

HyphenIdx == {i \in 1..Len(out) : IsHyphens(out[i])}

\* The trailing section as the lines it is made of.
SectionOf(texts) ==
    <<<<>>, HeaderLine>> \o [i \in 1..Len(texts) |-> NoMatchPrefix \o texts[i]]

\* C1: while main runs, the output is the blocks of the matching lines
\* consumed so far, in input order, and the rejection list is the rejected
\* lines consumed so far, in input order; every line consumed gave a block
\* or a rejection entry and none gave both; after the loop, with the debug
\* flag, the NO MATCH lines are the rejected lines in input order.
C1_Order ==
    Running =>
        /\ Len(hist) = idx
        /\ no_match_lines = RejectedTexts(idx)
        /\ Cardinality(HyphenIdx) = 2 * (idx - Len(no_match_lines))
        /\ pc \in {"loop", "after_loop"} => out = BlocksOf(idx)
        /\ (pc \in {"closing", "done"} /\ args_debug /\ no_match_lines # <<>>) =>
              out = BlocksOf(idx) \o SectionOf(RejectedTexts(idx))
        /\ (pc \in {"closing", "done"} /\ ~(args_debug /\ no_match_lines # <<>>)) =>
              out = BlocksOf(idx)

C1_Witness ==
    /\ pc = "done"
    /\ args_debug
    /\ Len(file) = 3
    /\ file = <<RejectedText1 \o NL, AcceptedText0 \o NL, NL>>
    /\ Len(out) = 15 + 4
    /\ out[18] = NoMatchPrefix \o RejectedText1
    /\ out[19] = NoMatchPrefix

\* Some line of the file is rejected.
SomeRejected == \E i \in 1..Len(hist) : RejectedAt(i)

\* C2: the DEBUG MODE header is written at most once; when it is in the
\* output the whole input has been consumed, the debug flag was given, a
\* line was rejected, and after it come only NO MATCH lines (so every block
\* is before it); a completed run has it iff the debug flag was given and
\* some line was rejected; without the debug flag neither the header nor a
\* NO MATCH line is ever written.
C2_DebugSection ==
    /\ Cardinality(HeaderIdx) <= 1
    /\ \A h \in HeaderIdx :
          /\ pc \in {"closing", "done", "raised"}
          /\ idx = Len(file)
          /\ args_debug
          /\ SomeRejected
          /\ h > 1 /\ out[h - 1] = <<>>
          /\ \A j \in 1..(h - 2) : j \notin NoMatchIdx
          /\ \A j \in (h + 1)..Len(out) : j \in NoMatchIdx
    /\ NoMatchIdx # {} => HeaderIdx # {}
    /\ pc = "done" => (HeaderIdx # {} <=> (args_debug /\ SomeRejected))
    /\ ~args_debug => (HeaderIdx = {} /\ NoMatchIdx = {})

C2_Witness ==
    /\ pc = "done"
    /\ HeaderIdx # {}
    /\ HyphenIdx # {}
    /\ \A i \in HyphenIdx : \A h \in HeaderIdx : i < h

\* C6: when main has ended, by returning or by raising, the output file it
\* opened is closed.
C6_ClosedOnEveryExit == pc \in {"done", "raised"} => out_f # "open"

\* The lines of the output before the trailing section.
BlockLines == IF HeaderIdx = {} THEN Len(out) ELSE (CHOOSE h \in HeaderIdx : TRUE) - 2

\* The hyphen lines alternate as opening and closing dividers: the first
\* line is one, each closing divider is followed at once by the next
\* opening divider, and the last line before the trailing section is one.
DividersBracket ==
    /\ BlockLines > 0 => (1 \in HyphenIdx /\ BlockLines \in HyphenIdx)
    /\ \A i \in HyphenIdx :
          LET rank == Cardinality({j \in HyphenIdx : j <= i}) IN
          /\ i <= BlockLines
          /\ (rank % 2 = 0 /\ i < BlockLines) => i + 1 \in HyphenIdx
          /\ rank % 2 = 1 => (i + 1 \notin HyphenIdx /\ i + 1 <= BlockLines)
    /\ \A i \in 1..BlockLines : out[i] # <<>>

\* C7 as stated: the dividers have 53 hyphens.
C7_DividersAsStated ==
    Running => (DividersBracket /\ \A i \in HyphenIdx : Len(out[i]) = 53)

\* C7 amended: every record block written by main begins with a divider
\* line and ends with a divider line, each of exactly 51 hyphens, and
\* nothing, no blank line either, is written between the closing divider of
\* one record and the opening divider of the next.
C7_Dividers ==
    Running => (DividersBracket /\ \A i \in HyphenIdx : Len(out[i]) = 51)

C7_Witness ==
    /\ pc = "done"
    /\ Cardinality(HyphenIdx) = 4
    /\ Len(out[1]) = 51
    /\ \E i \in HyphenIdx : i > 1 /\ i + 1 \in HyphenIdx

\* The lines as read, terminators included, of the rejected lines among the
\* first n.
RejectedRaw(n) == [k \in 1..Len(RejectedOrder(n)) |-> file[RejectedOrder(n)[k]]]

\* C10 as stated: the rejection list holds the rejected lines as read,
\* before the terminator was stripped.
C10_RejectedTextAsStated ==
    Running => no_match_lines = RejectedRaw(idx)

\* C10 amended: the text handed to the parser is the line read without its
\* trailing terminator, all other whitespace kept; the text appended to the
\* rejection list, and later written after "NO MATCH: ", is that same
\* stripped text, not the line with its terminator; nothing is written for
\* a rejected line while the input is read.
C10_RejectedText ==
    Running =>
        /\ idx > 0 => (line = LineText(file[idx]) /\ parsed = hist[idx])
        /\ (idx > 0 /\ RejectedAt(idx)) => no_match_lines[Len(no_match_lines)] = line
        /\ Len(no_match_lines) = Len(RejectedRaw(idx))
        /\ \A i \in 1..Len(no_match_lines) :
              /\ no_match_lines[i] = LineText(RejectedRaw(idx)[i])
              /\ \A k \in 1..Len(no_match_lines[i]) : no_match_lines[i][k] # "\n"
        /\ pc \in {"loop", "after_loop"} => (NoMatchIdx = {} /\ HeaderIdx = {})
        /\ \A h \in HeaderIdx : \A i \in 1..(Len(out) - h) :
              out[h + i] = NoMatchPrefix \o no_match_lines[i]

C10_Witness ==
    /\ pc = "done"
    /\ args_debug
    /\ Len(file) = 1
    /\ file[1] = RejectedText1 \o NL
    /\ no_match_lines = <<RejectedText1>>
    /\ out = <<<<>>, HeaderLine, NoMatchPrefix \o RejectedText1>>

\* -------------------------------------------------------------------------
\* Removing one character of a required token (DeleteSpec)
\* -------------------------------------------------------------------------
\* Built lines whose device name or MAC begins like the group before it, and
\* built lines with text around the "per channel" marker that repeats part
\* of it.
DeleteInjections ==
    [kind    : {"built"},
     ows     : {<<>>, <<" ">>},
     dev     : {<<"e","t","h","0">>, <<"3",":","e">>, <<":","e">>},
     devPad  : {<<>>},
     mac     : {<<"A",":","B">>, <<"8",",","M">>, <<",","M">>},
     st      : {<<"1">>},
     wsSlash : {<<" ">>},
     wsComma : {<<" ">>},
     any     : {<<" ","b","l","a","h"," ">>},
     chans   : {c \in ChanLists : Len(c) <= 1 /\ \A i \in 1..Len(c) : c[i].commaWs = <<>>},
     tail    : {<<>>}]
    \cup
    [kind    : {"built"},
     ows     : {<<>>, <<" ">>},
     dev     : {<<"e","t","h","0">>},
     devPad  : {<<>>},
     mac     : {<<"A",":","B">>},
     st      : {<<"1">>},
     wsSlash : {<<" ">>},
     wsComma : {<<" ">>},
     any     : {<<>>, <<"p">>, <<">">>, <<"p","e","r"," ","c","h","a","n","n","e","l">>},
     chans   : {c \in ChanLists : Len(c) <= 1 /\ \A i \in 1..Len(c) : c[i].commaWs = <<>>},
     tail    : {<<>>, <<"l">>, <<" ","p","e","r"," ","c","h","a","n","n","e","l">>}]

DeleteInit ==
    /\ MainIdle
    /\ t_inj \in DeleteInjections
    /\ t_line = InputText(t_inj)
    /\ t_pc = "input"
    /\ t_parsed = Unset
    /\ t_match = Unset
    /\ t_block = <<>>
    /\ t_del = 0
    /\ t_reparsed = Unset

\* Text s without its k-th character.
Remove(s, k) == SubSeq(s, 1, k - 1) \o SubSeq(s, k + 1, Len(s))

\* parse_cnu_line of an accepted line with one character removed, the
\* character being one that a literal of line_regex matched.
Delete ==
    /\ t_pc = "parsed"
    /\ Truthy(t_parsed)
    /\ \E k \in t_match.lit :
          /\ t_del' = k
          /\ t_reparsed' = parse_cnu_line(Remove(t_line, k))
    /\ t_pc' = "deleted"
    /\ UNCHANGED <<t_inj, t_line, t_parsed, t_match, t_block>>
    /\ UNCHANGED main_vars

DeleteNext == Parse \/ Delete

DeleteSpec == DeleteInit /\ [][DeleteNext]_vars

\* The keys of the dictionary parse_cnu_line builds.
RecordKeys ==
    {"timestamp", "trace_level", "module", "function", "source_line", "moca_port",
     "moca_port_dev", "cnu_id", "cnu_mac", "source_type", "rx_good", "rx_bad",
     "rx_bad_percent", "channels"}

Whole(v) == v = None \/ DOMAIN v = RecordKeys

\* Text s is zero or more digits, then sep, then at least one character.
DigitsThen(s, sep) ==
    \E j \in 1..(Len(s) - 1) : s[j] = sep /\ \A i \in 1..(j - 1) : s[i] \in Digit

\* The removed character k is supplied again by the text around it.
Resupplied(k) ==
    LET rxClose == t_match.g[14][2] + 2 IN
    \/ k = t_match.g[7][2] + 1 /\ DigitsThen(group(t_line, t_match, 8), ":")
    \/ k = t_match.g[9][2] + 1 /\ DigitsThen(group(t_line, t_match, 10), ",")
    \/ k = rxClose /\ k < Len(t_line) /\ t_line[k + 1] = ">"
    \/ k > rxClose
       /\ Contains(SubSeq(Remove(t_line, k), rxClose + 1, Len(t_line) - 1), PerChannel)

\* C5 as stated: removing any one character of a required token of an
\* accepted line gives a line that is rejected.
C5_AllOrNothingAsStated == t_pc = "deleted" => t_reparsed = None

\* C5 amended: removing one character of a required token of an accepted
\* line gives a line that is rejected, unless the rest of the line supplies
\* the token again, in which case the shortened line is accepted: the ":"
\* of <port:dev> when dev is digits (possibly none), ":" and more text; the
\* "," of <cnuId,mac> when mac is digits (possibly none), "," and more
\* text; the ">" of "%>" when the next character is ">"; a character of
\* "per channel" when the text after "%>" still holds "per channel" without
\* it.  The result of parse_cnu_line is None or a record with all 13 header
\* fields and the channel list.
C5_AllOrNothing ==
    /\ t_pc = "deleted" => (Truthy(t_reparsed) <=> Resupplied(t_del))
    /\ t_pc = "deleted" => Whole(t_reparsed)
    /\ t_pc \in {"parsed", "deleted"} => Whole(t_parsed)

C5_Witness ==
    /\ t_pc = "deleted"
    /\ t_del = t_match.g[4][2] + 1
    /\ t_line[t_del] = ":"
    /\ t_reparsed = None

=============================================================================
